---- MODULE Spec2Model ----
(***************************************************************************)
(* OpenApiService (src/src/background/service/openapi.ts): the persisted   *)
(* {host, config} store, the rate-limited transport, the route-table       *)
(* refresh (getConfig), the dynamic dispatcher (_mountMethods) and the     *)
(* typed operations.                                                       *)
(*                                                                         *)
(* Strings the code transforms (HTTP methods, addresses) and every request *)
(* value are sequences of one-character strings; route keys, paths and     *)
(* hosts, which the code only compares or forwards, are TLA+ strings.      *)
(*                                                                         *)
(* Spec follows the store, the route table, the callables and the request  *)
(* each operation hands to the transport; the caller awaits init() and     *)
(* setHost() before calling either again, while operations are called at   *)
(* any of their await points.  SpecRate follows the queues and per-second  *)
(* counts of the rateLimit instances the same init() builds.               *)
(***************************************************************************)
EXTENDS Integers, Sequences, FiniteSets, TLC

\* ------------------------------------------------------------------ bounds
MaxAddrLen == 1
MaxArgs == 2
MaxQueued == 2
MaxLimiters == 2

\* maxRPS of every rateLimit(...) the service builds
maxRPS == 25

\* ----------------------------------------------------------------- strings
UpperChars == <<"A", "B", "E", "G", "O", "P", "S", "T", "X">>
LowerChars == <<"a", "b", "e", "g", "o", "p", "s", "t", "x">>

LowerChar(c) ==
  IF \E i \in 1..Len(UpperChars) : UpperChars[i] = c
    THEN LowerChars[CHOOSE i \in 1..Len(UpperChars) : UpperChars[i] = c]
    ELSE c

\* String.prototype.toLowerCase
toLowerCase(s) == [i \in 1..Len(s) |-> LowerChar(s[i])]

\* the value JavaScript yields for a missing argument or property
undefined == <<"#undefined">>

SeqsUpTo(S, n) == UNION {[1..k -> S] : k \in 0..n}

\* ------------------------------------------------------------ route tables
Entry(p, m, ps) ==
  [path |-> p, method |-> m, hasMethod |-> TRUE, params |-> ps, hasParams |-> TRUE]

EntryNoParams(p, m) ==
  [path |-> p, method |-> m, hasMethod |-> TRUE, params |-> <<>>, hasParams |-> FALSE]

EntryNoMethod(p) ==
  [path |-> p, method |-> <<>>, hasMethod |-> FALSE, params |-> <<>>, hasParams |-> FALSE]

get == <<"g", "e", "t">>
post == <<"p", "o", "s", "t">>
GET == <<"G", "E", "T">>
POST == <<"P", "O", "S", "T">>
Post == <<"P", "o", "s", "t">>

\* a JSON value: kind "object" carries its keys in insertion order
Obj(ks, t) == [kind |-> "object", keys |-> ks, tbl |-> t]
NonObj(k) == [kind |-> k, keys |-> <<>>, tbl |-> <<>>]

TemplateHost == "https://alpha-openapi.debank.com"

TemplateKeys ==
  <<"get_supported_chains", "get_total_balance", "get_pending_tx_count",
    "recommend_chains", "check_origin_to_connect", "explain_origin_to_connect",
    "explain_text_to_sign", "check_text_to_sign", "explain_tx_to_sign",
    "check_tx_to_sign", "gas_market", "push_tx">>

TemplateTable ==
  ("get_supported_chains" :> Entry("/v1/wallet/supported_chains", get, <<>>)) @@
  ("get_total_balance" :> Entry("/v1/user/total_balance", get, <<"id">>)) @@
  ("get_pending_tx_count" :> Entry("/v1/wallet/pending_tx_count", get, <<"id">>)) @@
  ("recommend_chains" :> Entry("/v1/wallet/recommend_chains", get, <<"origin", "id">>)) @@
  ("check_origin_to_connect" :> EntryNoParams("/v1/wallet/security/check_origin", get)) @@
  ("explain_origin_to_connect" :>
     Entry("/v1/wallet/explain_origin", get, <<"origin", "title", "return_logo">>)) @@
  ("explain_text_to_sign" :>
     Entry("/v1/wallet/api/explain_text", get, <<"origin", "text", "user_addr">>)) @@
  ("check_text_to_sign" :>
     Entry("/v1/wallet/check_text", post, <<"origin", "text", "user_addr">>)) @@
  ("explain_tx_to_sign" :> EntryNoParams("/v1/wallet/explain_tx", get)) @@
  ("check_tx_to_sign" :> EntryNoParams("/v1/wallet/check_tx", post)) @@
  ("gas_market" :> Entry("/v1/wallet/gas_market", get, <<"chainId", "custom_price">>)) @@
  ("push_tx" :> EntryNoParams("/v1/wallet/push_tx", get))

Template == [host |-> TemplateHost, config |-> Obj(TemplateKeys, TemplateTable)]

EVM_RPC_METHODS ==
  <<"eth_getTransactionCount", "eth_blockNumber", "eth_call", "eth_estimateGas">>

\* ------------------------------------------------------- discovery payloads
\* What GET /v1/wallet/config can answer.  ServerA describes every key the
\* typed operations look up plus the protocol-forwarding methods, in mixed
\* casing and with both HTTP methods on both kinds of operation.
ServerKeys ==
  <<"get_supported_chains", "get_total_balance", "get_pending_tx_count",
    "recommend_chains", "check_origin", "check_text", "check_tx", "explain_tx",
    "explain_text", "gas_market", "push_tx">>

ServerTable ==
  ("get_supported_chains" :> Entry("/v1/wallet/supported_chains", GET, <<>>)) @@
  ("get_total_balance" :> Entry("/v1/user/total_balance", GET, <<"id">>)) @@
  ("get_pending_tx_count" :> Entry("/v1/wallet/pending_tx_count", get, <<"id">>)) @@
  ("recommend_chains" :> Entry("/v1/wallet/recommend_chains", POST, <<"origin", "id">>)) @@
  ("check_origin" :> EntryNoParams("/v1/wallet/security/check_origin", GET)) @@
  ("check_text" :> Entry("/v1/wallet/check_text", POST, <<"origin", "text", "user_addr">>)) @@
  ("check_tx" :> EntryNoParams("/v1/wallet/check_tx", Post)) @@
  ("explain_tx" :> EntryNoParams("/v1/wallet/explain_tx", GET)) @@
  ("explain_text" :> Entry("/v1/wallet/api/explain_text", POST, <<"origin", "text", "user_addr">>)) @@
  ("gas_market" :> Entry("/v1/wallet/gas_market", GET, <<"chainId", "custom_price">>)) @@
  ("push_tx" :> EntryNoParams("/v1/wallet/push_tx", POST))

EthTable ==
  ("eth_getTransactionCount" :> Entry("/v1/wallet/eth_rpc", GET, <<"chainId", "origin", "id">>)) @@
  ("eth_blockNumber" :> EntryNoParams("/v1/wallet/eth_rpc", POST)) @@
  ("eth_call" :> Entry("/v1/wallet/eth_rpc", GET, <<"chainId", "chain_id">>)) @@
  ("eth_estimateGas" :> Entry("/v1/wallet/eth_rpc", POST, <<"chainId", "data", "from">>))

ServerA == Obj(ServerKeys \o EVM_RPC_METHODS, ServerTable @@ EthTable)
\* no protocol-forwarding method at all
ServerNoEth == Obj(ServerKeys, ServerTable)
\* only the first protocol-forwarding method
ServerPartial ==
  Obj(<<"eth_getTransactionCount", "push_tx">>,
      ("eth_getTransactionCount" :> Entry("/v2/eth_rpc", POST, <<"chainId", "origin", "id">>)) @@
      ("push_tx" :> EntryNoParams("/v1/wallet/push_tx", POST)))
\* the second entry has no method
ServerBroken ==
  Obj(<<"push_tx", "check_tx", "explain_tx">>,
      ("push_tx" :> EntryNoParams("/v2/push_tx", POST)) @@
      ("check_tx" :> EntryNoMethod("/v2/check_tx")) @@
      ("explain_tx" :> EntryNoParams("/v2/explain_tx", POST)))
ServerEmpty == Obj(<<>>, <<>>)

\* kind "error": the request rejects; "null": JSON null; "scalar": a number or
\* the empty string (no enumerable key); "text": a non-empty string, which is
\* what the transport hands back for a body that is not JSON
Responses ==
  {NonObj("error"), NonObj("null"), NonObj("scalar"), NonObj("text"),
   ServerA, ServerNoEth, ServerPartial, ServerBroken, ServerEmpty}

\* ----------------------------------------------------------------- getConfig
RECURSIVE LowerMethods(_, _, _)
\* the for-in loop over data, from key number i on
LowerMethods(ks, tbl, i) ==
  IF i > Len(ks) THEN [threw |-> FALSE, tbl |-> tbl]
  ELSE IF ~tbl[ks[i]].hasMethod THEN [threw |-> TRUE, tbl |-> tbl]
  ELSE LowerMethods(ks, [tbl EXCEPT ![ks[i]].method = toLowerCase(@)], i + 1)

\* getConfig with this.store.config = data hoisted above the loop
getConfigAssignFirst(config, resp) ==
  CASE resp.kind \in {"error", "text"} -> [threw |-> TRUE, config |-> config]
    [] resp.kind \in {"null", "scalar"} -> [threw |-> FALSE, config |-> resp]
    [] OTHER ->
       LET r == LowerMethods(resp.keys, resp.tbl, 1)
       IN [threw |-> r.threw, config |-> Obj(resp.keys, r.tbl)]

\* getConfig once the request has settled with resp: whether it threw and the
\* value this.store.config holds afterwards
getConfig(config, resp) ==
  CASE resp.kind \in {"error", "text"} -> [threw |-> TRUE, config |-> config]
    [] resp.kind \in {"null", "scalar"} -> [threw |-> FALSE, config |-> resp]
    [] OTHER ->
       LET r == LowerMethods(resp.keys, resp.tbl, 1)
       IN IF r.threw THEN [threw |-> TRUE, config |-> config]
          ELSE [threw |-> FALSE, config |-> Obj(resp.keys, r.tbl)]

\* ------------------------------------------------------------ persist store
NoStore == [host |-> "", config |-> NonObj("undefined")]

\* createPersistStore({name: 'openapi', template}): the persisted record, or
\* the template, seeded and persisted, when nothing is persisted yet
createPersistStore(persisted) == IF persisted = NoStore THEN Template ELSE persisted

\* the transport init builds: rateLimit(axios.create({baseURL: store.host}))
RebuildStale(request, store) == request

RebuildRequest(request, store) == [base |-> store.host]

\* --------------------------------------------------------- dynamic dispatcher
underline2Camelcase(m) ==
  CASE m = "eth_getTransactionCount" -> "ethGetTransactionCount"
    [] m = "eth_blockNumber" -> "ethBlockNumber"
    [] m = "eth_call" -> "ethCall"
    [] m = "eth_estimateGas" -> "ethEstimateGas"

CamelNames == {underline2Camelcase(EVM_RPC_METHODS[i]) : i \in 1..Len(EVM_RPC_METHODS)}

\* this.store.config[key] is an entry (reading it off null, a scalar or an
\* object without the key gives nothing to take .method or .params from)
HasRoute(config, key) ==
  config.kind = "object" /\ \E i \in 1..Len(config.keys) : config.keys[i] = key

NotMounted == [defined |-> FALSE, config |-> EntryNoMethod(""), rest |-> <<>>]

RECURSIVE MountMethods(_, _, _, _)
\* methods.forEach from method number i on: the callables defined on the
\* service (each closes over its route entry and rest) and whether it threw
MountMethods(self, config, methods, i) ==
  IF i > Len(methods) THEN [threw |-> FALSE, self |-> self]
  ELSE IF ~HasRoute(config, methods[i]) THEN [threw |-> TRUE, self |-> self]
  ELSE LET entry == config.tbl[methods[i]]
           ps == IF entry.hasParams THEN entry.params ELSE <<>>
           rest == IF ps = <<>> THEN <<>> ELSE Tail(ps)
           fn == [defined |-> TRUE, config |-> entry, rest |-> rest]
       IN MountMethods([self EXCEPT ![underline2Camelcase(methods[i])] = fn],
                       config, methods, i + 1)

RECURSIVE Reduce(_, _, _, _)
\* rest.reduce((m, n, i) => { m[n] = params[i]; return m }, {}) from index i on
Reduce(rest, params, i, m) ==
  IF i > Len(rest) THEN m
  ELSE Reduce(rest, params, i + 1,
              (rest[i] :> (IF i <= Len(params) THEN params[i] ELSE undefined)) @@ m)

\* { chain_id: chainId, ...rest.reduce(...) }: a later key replaces an earlier one
reqData(rest, chainId, params) ==
  Reduce(rest, params, 1, <<>>) @@ ("chain_id" :> chainId)

\* config.method === 'get' ? { params: reqData } : reqData
DynArg(method, data) == IF method = get THEN [params |-> data] ELSE data

\* ------------------------------------------------------------------ transport
\* this.request[method](path, arg): get takes a request config, whose params
\* are the query string and whose data is the body; post takes the body
Axios(method, arg, hasArg) ==
  CASE method = get ->
         [ok |-> TRUE,
          query |-> IF hasArg /\ "params" \in DOMAIN arg THEN arg.params ELSE <<>>,
          hasBody |-> hasArg /\ "data" \in DOMAIN arg,
          body |-> IF hasArg /\ "data" \in DOMAIN arg THEN arg.data ELSE <<>>]
    [] method = post ->
         [ok |-> TRUE, query |-> <<>>, hasBody |-> hasArg,
          body |-> IF hasArg THEN arg ELSE <<>>]
    [] OTHER -> [ok |-> FALSE, query |-> <<>>, hasBody |-> FALSE, body |-> <<>>]

\* ------------------------------------------------------------ typed operations
TypedOps ==
  {"getSupportedChains", "getRecommendChains", "getTotalBalance", "getPendingCount",
   "checkOrigin", "checkText", "checkTx", "explainTx", "pushTx", "explainText",
   "gasMarket"}

\* the key each operation reads from this.store.config
RouteKey(op) ==
  CASE op = "getSupportedChains" -> "get_supported_chains"
    [] op = "getRecommendChains" -> "recommend_chains"
    [] op = "getTotalBalance" -> "get_total_balance"
    [] op = "getPendingCount" -> "get_pending_tx_count"
    [] op = "checkOrigin" -> "check_origin"
    [] op = "checkText" -> "check_text"
    [] op = "checkTx" -> "check_tx"
    [] op = "explainTx" -> "explain_tx"
    [] op = "pushTx" -> "push_tx"
    [] op = "explainText" -> "explain_text"
    [] op = "gasMarket" -> "gas_market"

\* the operations that pass { params: {...} } as the second argument
Wrapped(op) ==
  op \in {"getRecommendChains", "getTotalBalance", "getPendingCount", "checkOrigin",
          "gasMarket"}

HasArg(op) == op # "getSupportedChains"

\* address.toLowerCase(), as getPendingCount would send it without the call
NormalizeAddressPendingRaw(op, address) ==
  IF op = "getPendingCount" THEN address ELSE toLowerCase(address)

\* address.toLowerCase() in the operation op
NormalizeAddress(op, address) == toLowerCase(address)

\* the parameters each operation builds
TypedParams(op, inp) ==
  CASE op = "getSupportedChains" -> <<>>
    [] op \in {"getRecommendChains", "checkOrigin"} ->
         [user_addr |-> NormalizeAddress(op, inp.address), origin |-> inp.origin]
    [] op = "getTotalBalance" -> [id |-> NormalizeAddress(op, inp.address)]
    [] op = "getPendingCount" -> [user_addr |-> NormalizeAddress(op, inp.address)]
    [] op \in {"checkText", "explainText"} ->
         [user_addr |-> NormalizeAddress(op, inp.address), origin |-> inp.origin,
          text |-> inp.text]
    [] op \in {"checkTx", "explainTx"} ->
         [user_addr |-> NormalizeAddress(op, inp.address), origin |-> inp.origin,
          tx |-> inp.tx, update_nonce |-> inp.update_nonce]
    [] op = "pushTx" -> [tx |-> inp.tx]
    [] op = "gasMarket" -> [chain_id |-> inp.chainId, custom_price |-> inp.customGas]

TypedArg(op, inp) ==
  IF Wrapped(op) THEN [params |-> TypedParams(op, inp)] ELSE TypedParams(op, inp)

\* ----------------------------------------------------------------- inputs
Hosts == {TemplateHost, "https://new.example"}
AddrChars == {"a", "A"}
Addresses == SeqsUpTo(AddrChars, MaxAddrLen)
ArgVals == {<<"f", "o", "o">>, <<"b", "a", "r">>}

NoInput ==
  [address |-> <<>>, origin |-> <<>>, text |-> <<>>, tx |-> <<>>, update_nonce |-> FALSE,
   chainId |-> <<>>, customGas |-> undefined, extraArgs |-> <<>>]

TypedInputs(op) ==
  CASE op = "getSupportedChains" -> {NoInput}
    [] op \in {"getRecommendChains", "checkOrigin"} ->
         {[NoInput EXCEPT !.address = a, !.origin = <<"O", "x">>] : a \in Addresses}
    [] op \in {"getTotalBalance", "getPendingCount"} ->
         {[NoInput EXCEPT !.address = a] : a \in Addresses}
    [] op \in {"checkText", "explainText"} ->
         {[NoInput EXCEPT !.address = a, !.origin = <<"O", "x">>, !.text = <<"T", "A">>] :
            a \in Addresses}
    [] op \in {"checkTx", "explainTx"} ->
         {[NoInput EXCEPT !.address = a, !.origin = <<"O", "x">>, !.tx = <<"t", "X">>,
                          !.update_nonce = u] : a \in Addresses, u \in BOOLEAN}
    [] op = "pushTx" -> {[NoInput EXCEPT !.tx = <<"t", "X">>]}
    [] op = "gasMarket" ->
         {[NoInput EXCEPT !.chainId = <<"1">>, !.customGas = g] : g \in {undefined, <<"5">>}}

DynInputs ==
  {[NoInput EXCEPT !.chainId = <<"1">>, !.extraArgs = xs] : xs \in SeqsUpTo(ArgVals, MaxArgs)}

\* what the storage can hold when the service is constructed
PersistedAtStart ==
  {NoStore,
   [host |-> "https://new.example", config |-> getConfig(Template.config, ServerA).config]}

\* ------------------------------------------------------------------ state
VARIABLES
  store,      \* this.store, NoStore before the first init() has loaded it
  persisted,  \* what the storage holds under 'openapi'
  request,    \* this.request: the base host of the current transport
  self,       \* the callables _mountMethods has defined on the service
  pc,         \* where the init()/setHost() in progress stands
  hist,       \* the init()/setHost() call in progress or last completed
  last,       \* the latest operation called since that call began
  limiters,   \* the rateLimit instances built so far: queue length, slot count
  wire        \* requests that left the process in the current second

vars == <<store, persisted, request, self, pc, hist, last, limiters, wire>>

NoHist ==
  [call |-> "none", arg |-> "", outcome |-> "none", firstRun |-> FALSE, refreshes |-> 0,
   target |-> "", via |-> "", before |-> NonObj("undefined"), resp |-> NonObj("none"),
   threw |-> FALSE, mountReached |-> FALSE, mountThrew |-> FALSE]

NoCall ==
  [op |-> "none", kind |-> "none", inp |-> NoInput, result |-> "none", pc |-> "idle",
   route |-> EntryNoMethod(""), base |-> "", params |-> <<>>,
   wire |-> Axios(<<>>, <<>>, FALSE)]

Init ==
  /\ store = NoStore
  /\ persisted \in PersistedAtStart
  /\ request = [base |-> ""]
  /\ self = [n \in CamelNames |-> NotMounted]
  /\ pc = "idle"
  /\ hist = NoHist
  /\ last = NoCall
  /\ limiters = <<[queued |-> 0, slot |-> 0]>>
  /\ wire = 0

\* ---------------------------------------------------------------- init()
\* the try block of init once the discovery request has settled with resp:
\* await this.getConfig(); this._mountMethods(EVM_RPC_METHODS)
InitTry(fns, config, resp) ==
  LET g == getConfig(config, resp)
      m == MountMethods(fns, g.config, EVM_RPC_METHODS, 1)
  IN IF g.threw
       THEN [config |-> g.config, self |-> fns, threw |-> TRUE,
             mountReached |-> FALSE, mountThrew |-> FALSE]
       ELSE [config |-> g.config, self |-> m.self, threw |-> FALSE,
             mountReached |-> TRUE, mountThrew |-> m.threw]

\* catch (e) { console.error(...) }: whatever the try block threw, init returns
InitOutcome(t) == "returned"

\* init() is called; it suspends on createPersistStore
CallInit ==
  /\ pc = "idle"
  /\ pc' = "load"
  /\ hist' = [NoHist EXCEPT !.call = "init", !.before = store.config]
  /\ last' = NoCall
  /\ UNCHANGED <<store, persisted, request, self, limiters, wire>>

\* setHost(h): this.store.host = h, persisted by the store, then init();
\* before any init() there is no store to write to and the call raises
CallSetHost(h) ==
  /\ pc = "idle"
  /\ last' = NoCall
  /\ IF store = NoStore
       THEN /\ hist' = [NoHist EXCEPT !.call = "setHost", !.arg = h, !.outcome = "raised"]
            /\ UNCHANGED <<store, persisted, pc>>
       ELSE /\ store' = [store EXCEPT !.host = h]
            /\ persisted' = store'
            /\ pc' = "load"
            /\ hist' = [NoHist EXCEPT !.call = "setHost", !.arg = h,
                                      !.before = store.config]
  /\ UNCHANGED <<request, self, limiters, wire>>

\* createPersistStore resolves: the store is loaded or seeded, the transport is
\* rebuilt and getConfig sends GET `${this.store.host}/v1/wallet/config`
InitLoaded ==
  /\ pc = "load"
  /\ LET st == createPersistStore(persisted)
         rq == RebuildRequest(request, st)
     IN /\ store' = st
        /\ persisted' = st
        /\ request' = rq
        /\ hist' = [hist EXCEPT !.firstRun = (persisted = NoStore),
                                !.refreshes = @ + 1,
                                !.target = st.host,
                                !.via = rq.base,
                                !.before = st.config]
  /\ pc' = "fetch"
  /\ UNCHANGED <<self, last, limiters, wire>>

\* the discovery request settles with resp and init runs to its end
InitSettled(resp) ==
  /\ pc = "fetch"
  /\ LET t == InitTry(self, store.config, resp)
     IN /\ store' = [store EXCEPT !.config = t.config]
        /\ persisted' = store'
        /\ self' = t.self
        /\ hist' = [hist EXCEPT !.resp = resp, !.threw = t.threw,
                                !.mountReached = t.mountReached,
                                !.mountThrew = t.mountThrew,
                                !.outcome = InitOutcome(t)]
  /\ pc' = "idle"
  /\ UNCHANGED <<request, last, limiters, wire>>

\* ------------------------------------------------------------ operation calls
\* a typed operation up to its await: the route read from this.store.config,
\* the argument built, the request handed to this.request
TypedIssue(st, rq, op, inp, at) ==
  LET failed == [NoCall EXCEPT !.op = op, !.kind = "typed", !.inp = inp,
                               !.result = "TypeError", !.pc = at]
  IN IF ~HasRoute(st.config, RouteKey(op)) THEN failed
     ELSE LET entry == st.config.tbl[RouteKey(op)]
              w == Axios(entry.method, TypedArg(op, inp), HasArg(op))
          IN IF ~w.ok THEN failed
             ELSE [op |-> op, kind |-> "typed", inp |-> inp, result |-> "sent", pc |-> at,
                   route |-> entry, base |-> rq.base, params |-> TypedParams(op, inp),
                   wire |-> w]

\* a callable defined by _mountMethods, called as (chainId, params)
DynIssue(fns, rq, name, inp, at) ==
  LET failed == [NoCall EXCEPT !.op = name, !.kind = "dynamic", !.inp = inp,
                               !.result = "TypeError", !.pc = at]
      fn == fns[name]
      data == reqData(fn.rest, inp.chainId, inp.extraArgs)
      w == Axios(fn.config.method, DynArg(fn.config.method, data), TRUE)
  IN IF ~fn.defined \/ ~w.ok THEN failed
     ELSE [op |-> name, kind |-> "dynamic", inp |-> inp, result |-> "sent", pc |-> at,
           route |-> fn.config, base |-> rq.base, params |-> data, wire |-> w]

\* an operation is called while no earlier one is awaiting its response
TypedCall(op, inp) ==
  /\ last = NoCall
  /\ last' = TypedIssue(store, request, op, inp, pc)
  /\ UNCHANGED <<store, persisted, request, self, pc, hist, limiters, wire>>

DynCall(name, inp) ==
  /\ last = NoCall
  /\ last' = DynIssue(self, request, name, inp, pc)
  /\ UNCHANGED <<store, persisted, request, self, pc, hist, limiters, wire>>

\* the operation's promise settles; nothing of the service changes
OpSettled ==
  /\ last # NoCall
  /\ last' = NoCall
  /\ UNCHANGED <<store, persisted, request, self, pc, hist, limiters, wire>>

Next ==
  \/ CallInit
  \/ \E h \in Hosts : CallSetHost(h)
  \/ InitLoaded
  \/ \E resp \in Responses : InitSettled(resp)
  \/ \E op \in TypedOps : \E inp \in TypedInputs(op) : TypedCall(op, inp)
  \/ \E name \in CamelNames : \E inp \in DynInputs : DynCall(name, inp)
  \/ OpSettled

Spec == Init /\ [][Next]_vars

\* ------------------------------------------------------------ rate limiting
\* Each rateLimit(...) instance keeps its own queue and its own count of the
\* requests it released in the running second; the service holds the latest
\* instance in this.request, and an earlier one lives on while requests it
\* accepted are queued or its second has not ended.
Current == Len(limiters)

\* an operation hands a request to this.request
RateCall ==
  /\ limiters[Current].queued < MaxQueued
  /\ limiters' = [limiters EXCEPT ![Current].queued = @ + 1]
  /\ UNCHANGED <<store, persisted, request, self, pc, hist, last, wire>>

\* limiter i releases its oldest queued request: it has released fewer than
\* maxRPS in the running second
RateShift(i) ==
  /\ limiters[i].queued > 0
  /\ limiters[i].slot < maxRPS
  /\ limiters' = [limiters EXCEPT ![i].queued = @ - 1, ![i].slot = @ + 1]
  /\ wire' = wire + 1
  /\ UNCHANGED <<store, persisted, request, self, pc, hist, last>>

\* the running second ends: every limiter starts a new slot
RateSecond ==
  /\ wire > 0
  /\ limiters' = [i \in 1..Len(limiters) |-> [limiters[i] EXCEPT !.slot = 0]]
  /\ wire' = 0
  /\ UNCHANGED <<store, persisted, request, self, pc, hist, last>>

\* init(): this.request = rateLimit(axios.create({baseURL}), {maxRPS: 25})
RateInit ==
  /\ Len(limiters) < MaxLimiters
  /\ limiters' = Append(limiters, [queued |-> 0, slot |-> 0])
  /\ UNCHANGED <<store, persisted, request, self, pc, hist, last, wire>>

RateNext ==
  \/ RateCall
  \/ \E i \in 1..Len(limiters) : RateShift(i)
  \/ RateSecond
  \/ RateInit

SpecRate == Init /\ [][RateNext]_vars

\* ------------------------------------------------------------------ claims
getHost == store.host

InitDone == pc = "idle" /\ hist.call \in {"init", "setHost"} /\ hist.outcome = "returned"

\* a discovery payload the spec calls malformed
Malformed(resp) ==
  \/ resp.kind \in {"null", "scalar", "text"}
  \/ /\ resp.kind = "object"
     /\ \/ resp.keys = <<>>
        \/ \E i \in 1..Len(resp.keys) : ~resp.tbl[resp.keys[i]].hasMethod

\* c is d, or the lower-case form of the upper-case letter d
SameLetter(c, d) ==
  c = d \/ \E j \in 1..Len(UpperChars) : UpperChars[j] = d /\ LowerChars[j] = c

NoUpper(str) == \A i \in 1..Len(str) : \A j \in 1..Len(UpperChars) : str[i] # UpperChars[j]

\* every entry of a stored table has a method, and it is lower-cased
AllLower(config) ==
  \A i \in 1..Len(config.keys) :
    config.tbl[config.keys[i]].hasMethod /\ NoUpper(config.tbl[config.keys[i]].method)

\* the whole table of a payload, every method lower-cased
Delivered(resp) ==
  [resp EXCEPT !.tbl = [k \in DOMAIN resp.tbl |->
                          [resp.tbl[k] EXCEPT !.method = [i \in 1..Len(@) |-> LowerChar(@[i])]]]]

\* C1: when the refresh fails (the request rejects, or the payload is
\* malformed: not an object, null, empty, or with an entry without a method),
\* the table after init() returns is the table held before the refresh, and
\* init() does not raise.
C1_FailedRefreshKeepsTable ==
  (pc = "idle" /\ hist.refreshes = 1 /\ (hist.resp.kind = "error" \/ Malformed(hist.resp)))
    => (store.config = hist.before /\ hist.outcome = "returned")

\* C2: wherever an operation can read it, the route table is either exactly
\* the table held before the refresh or exactly the whole table of the
\* payload with every method lower-cased; no stored method is missing or not
\* lower-cased.
C2_RefreshAllOrNothing ==
  /\ \/ store.config = hist.before
     \/ /\ pc = "idle"
        /\ hist.refreshes = 1
        /\ ~hist.threw
        /\ store.config = Delivered(hist.resp)
  /\ AllLower(store.config)

C2_Witness ==
  /\ pc = "idle"
  /\ hist.resp = ServerA
  /\ store.config = Delivered(ServerA)
  /\ store.config # hist.before
  /\ last.kind = "typed"
  /\ last.pc = "fetch"
  /\ last.result = "sent"

\* C3: once setHost(h) has completed on an initialized service, getHost() is
\* h, the transport's base host is h, that call attempted exactly one refresh,
\* against h and through the rebuilt transport, and a typed operation called
\* afterwards goes out through a transport whose base host is h.
C3_SetHostRetargets ==
  (InitDone /\ hist.call = "setHost")
    => /\ getHost = hist.arg
       /\ request.base = hist.arg
       /\ hist.refreshes = 1
       /\ hist.target = hist.arg
       /\ hist.via = hist.arg
       /\ (last.kind = "typed" /\ last.result = "sent" /\ last.pc = "idle")
            => last.base = hist.arg

C3_Witness ==
  /\ InitDone
  /\ hist.call = "setHost"
  /\ hist.arg = "https://new.example"
  /\ hist.before # store.config
  /\ last.kind = "typed"
  /\ last.result = "sent"
  /\ last.pc = "idle"
  /\ last.base = "https://new.example"

\* C4: no more than 25 requests leave the process within one second, also
\* when init()/setHost() rebuilds the transport while earlier calls are queued
\* in the previous one.
C4_RateLimit == wire <= maxRPS

\* C5: the request object of a mounted callable with declared names p, called
\* with (chainId, extraArgs), maps p[i+1] to extraArgs[i], never has p[0] as a
\* key, and carries the caller's chainId under chain_id.
C5_Binding ==
  (last.kind = "dynamic" /\ last.result = "sent")
    => LET p == last.route.params
           xs == last.inp.extraArgs
       IN /\ last.params["chain_id"] = last.inp.chainId
          /\ p # <<>> => p[1] \notin DOMAIN last.params
          /\ \A i \in 1..Len(xs) :
               (i + 1 <= Len(p) /\ p[i + 1] # "chain_id") => last.params[p[i + 1]] = xs[i]

\* C6: after a first-run init() whose refresh fails, the route table is the
\* bundled template and every typed operation finds an entry under the key
\* it looks up.
C6_TemplateServesTypedOps ==
  (InitDone /\ hist.call = "init" /\ hist.firstRun /\ hist.resp.kind = "error")
    => /\ store.config = Template.config
       /\ \A op \in TypedOps : HasRoute(store.config, RouteKey(op))

\* the body carries ps, bare or under params
InBody(w, ps) ==
  /\ w.hasBody
  /\ \/ w.body = ps
     \/ "params" \in DOMAIN w.body /\ w.body.params = ps

\* C7: the parameters of an operation go out in the query string when its
\* route's method is get and in the request body when it is post; they are
\* never left out of the request.
C7_Placement ==
  (last.result = "sent" /\ last.op # "getSupportedChains")
    => /\ last.route.method = get => last.wire.query = last.params
       /\ last.route.method = post => InBody(last.wire, last.params)

\* the operations that take an address, and the field it goes into
AddressOps ==
  {"getRecommendChains", "getTotalBalance", "getPendingCount", "checkOrigin",
   "checkText", "checkTx", "explainTx", "explainText"}

AddrField(op) == IF op = "getTotalBalance" THEN "id" ELSE "user_addr"

\* C8: every operation that takes an address sends the lower-cased address,
\* whatever the casing of the input, and alters no other field.
C8_AddressLowerCased ==
  (last.kind = "typed" /\ last.result = "sent" /\ last.op \in AddressOps)
    => LET ps == last.params
           a == ps[AddrField(last.op)]
       IN /\ Len(a) = Len(last.inp.address)
          /\ NoUpper(a)
          /\ \A i \in 1..Len(a) : SameLetter(a[i], last.inp.address[i])
          /\ "origin" \in DOMAIN ps => ps.origin = last.inp.origin
          /\ "text" \in DOMAIN ps => ps.text = last.inp.text
          /\ "tx" \in DOMAIN ps => ps.tx = last.inp.tx
          /\ "update_nonce" \in DOMAIN ps => ps.update_nonce = last.inp.update_nonce
          /\ last.route.method = get /\ Wrapped(last.op) => last.wire.query = ps
          /\ last.route.method = post => InBody(last.wire, ps)

C8_Witness ==
  /\ last.op = "checkTx"
  /\ last.result = "sent"
  /\ last.inp.address = <<"A">>
  /\ last.params.user_addr = <<"a">>
  /\ last.wire.hasBody
  /\ last.wire.body.user_addr = <<"a">>

\* C9: mounting a name the route table has no entry for raises at mount time,
\* defines no callable for it, and the failure is not recovered from: init()
\* raises.
C9_MountFatal ==
  (pc = "idle" /\ hist.mountReached
     /\ \E i \in 1..Len(EVM_RPC_METHODS) : ~HasRoute(store.config, EVM_RPC_METHODS[i]))
    => (hist.mountThrew /\ hist.outcome = "raised")

\* C10: every init() loads the store, rebuilds the transport, attempts one
\* refresh and then reaches the mount step, also when the refresh fails, so
\* that a callable exists for each protocol-forwarding method once init()
\* has completed.
C10_MountAlways ==
  InitDone
    => /\ hist.refreshes = 1
       /\ hist.via = store.host
       /\ hist.mountReached
       /\ \A n \in CamelNames : self[n].defined

====
